---- MODULE Spec2Model ----
(***************************************************************************)
(* The sync orchestrator of opencode-sync (src/src/sync/service.ts) and    *)
(* its commit message generator (src/unnamed/part_000), as a state machine *)
(* over the machines that share one remote.  Every flow is a linear        *)
(* sequence of awaited external calls; one step of the model is one such   *)
(* call together with the branch the code takes on its outcome.            *)
(***************************************************************************)
EXTENDS Integers, Sequences, FiniteSets, TLC

\* ------------------------------------------------------------------ bounds
\* Values a configuration key can take: 0..MaxVal.
MaxVal == 1
\* User edits and pushes of unmodelled machines in one behaviour.
MaxEdits == 1
\* Transient failures of external calls in a behaviour of the fair
\* specifications (the plain specification lets every call fail always).
MaxFailures == 1
\* the longest extraSecretPaths of a config written by hand
MaxExtra == 1

\* ------------------------------------------------------------- the universe
Machines == {"m1", "m2"}
Procs == {"p1", "p2"}
Keys == {"k1", "k2"}
Vals == 0 .. MaxVal
Content == [Keys -> Vals]
\* An overrides document: a value per key, or NoVal where the key is absent.
NoVal == 0 - 1
InitialContent == [k \in Keys |-> 0]
NoOverrides == [k \in Keys |-> NoVal]
Flows == {"init", "startup", "pull", "push", "enableSecrets"}
NoConfig == [exists |-> FALSE, includeSecrets |-> FALSE, extra |-> 0]
NeverSynced == [lastPull |-> FALSE, lastPush |-> FALSE, lastRemoteUpdate |-> FALSE]

VARIABLES
  \* which machine a flow instance runs on, and which instances run at all
  home, enabled,
  \* per machine: the persisted files and the clone
  config, syncState, local, overrides, cloned, branch, wt,
  \* the shared remote: its branch (a sequence of commits) and its visibility
  remote, remotePrivate,
  \* per flow instance: the flow, the call it is about to make, the calls of
  \* this run with their outcomes, how the run ended and with what message
  flow, pc, log, outcome, result,
  \* per flow instance: the locals of the running flow
  loaded, commitMsg, session, touched, plan,
  \* what is left of the edits and of the transient failures
  editsLeft, failBudget,
  \* per machine: the run that ended last was a pull that reconciled
  \* repo->local and returned, and nobody edited the local tree since
  pulled,
  \* the text a prompt answered with, and what generateCommitMessage
  \* returned for it (a sequence of at most one message)
  response, returned

machVars == <<config, syncState, local, overrides, cloned, branch, wt>>
remoteVars == <<remote, remotePrivate>>
runVars == <<flow, pc, log, outcome, result>>
localVars == <<loaded, commitMsg, session, touched, plan>>
envVars == <<home, enabled, editsLeft, failBudget>>
genVars == <<response, returned>>
vars == <<machVars, remoteVars, runVars, localVars, envVars, pulled, genVars>>

\* ----------------------------------------------------------------- helpers
Last(s) == s[Len(s)]
IsPrefix(s, t) == Len(s) <= Len(t) /\ SubSeq(t, 1, Len(s)) = s
HeadTree(b) == Last(b).tree
Calls(p) == {log[p][i][1] : i \in 1 .. Len(log[p])}
Did(p, call) == call \in Calls(p)
DidWith(p, call, res) ==
  \E i \in 1 .. Len(log[p]) : log[p][i][1] = call /\ log[p][i][2] = res
IndexOf(p, call) == CHOOSE i \in 1 .. Len(log[p]) : log[p][i][1] = call

\* resolveRepoRoot: the clone's directory, one per machine
resolveRepoRoot(m) == IF m = "m1" THEN "repo_m1" ELSE "repo_m2"

\* a transient failure of an external call is possible while the budget
\* lasts; a negative budget never runs out
CanFail == failBudget # 0
Spend(failed) ==
  failBudget' = IF failed /\ failBudget > 0 THEN failBudget - 1 ELSE failBudget

\* ------------------------------------------------------- the repo gateway
\* hasLocalChanges: the working tree differs from the last commit
hasLocalChanges(m) == wt[m] # HeadTree(branch[m])

\* fetchAndFastForward: what the call reports for a clone against the remote
fetchAndFastForward(m) ==
  IF branch[m] = remote THEN "uptodate"
  ELSE IF IsPrefix(branch[m], remote) THEN "updated"
  ELSE IF IsPrefix(remote, branch[m]) THEN "uptodate"
  ELSE "diverged"

\* pushBranch is accepted only when the remote branch is an ancestor
pushAccepted(m) == IsPrefix(remote, branch[m])

\* ensureRepoPrivate: the remote's visibility decides
ensureRepoPrivate == IF remotePrivate THEN "ok" ELSE "notPrivate"

\* ------------------------------------------------------- the sync planner
\* the catalogs of well-known paths
RegularPaths == <<"opencode.json", "opencode.jsonc", "AGENTS.md", "agent", "command",
                  "mode", "tool", "themes", "plugin">>
SecretPaths == <<"auth.json", "mcp-auth.json">>
SyncItems(paths, secret) ==
  [i \in 1 .. Len(paths) |-> [path |-> paths[i], isSecret |-> secret]]
\* extraSecretPaths of a config: extra many paths
ExtraSecretPaths(extra) == [i \in 1 .. extra |-> <<"extra", i>>]
NoPlan == [items |-> <<>>, allowlist |-> <<>>]
buildSyncPlanUngated(c) ==
  [items |-> SyncItems(RegularPaths, FALSE) \o SyncItems(SecretPaths, TRUE),
   allowlist |-> ExtraSecretPaths(c.extra)]
\* buildSyncPlan: the secret catalog and the allowlist are added only with
\* includeSecrets
buildSyncPlan(c) ==
  [items |-> SyncItems(RegularPaths, FALSE)
               \o (IF c.includeSecrets THEN SyncItems(SecretPaths, TRUE) ELSE <<>>),
   allowlist |-> IF c.includeSecrets THEN ExtraSecretPaths(c.extra) ELSE <<>>]

\* --------------------------------------------------------- the reconciler
applyOverridesDropped(c, ov) == c
\* the Override Overlay: override values win
applyOverrides(c, ov) == [k \in Keys |-> IF ov[k] # NoVal THEN ov[k] ELSE c[k]]
stripOverridesKept(c, ov, repoTree) == c
\* values that came from the overlay are not written to the repo
stripOverrides(c, ov, repoTree) ==
  [k \in Keys |-> IF ov[k] # NoVal /\ c[k] = ov[k] THEN repoTree[k] ELSE c[k]]
syncRepoToLocal(m, ov) == applyOverrides(wt[m], ov)
syncLocalToRepo(m, ov) == stripOverrides(local[m], ov, wt[m])
\* what a copy that failed midway may have left: any mix of old and new
Partial(old, new) == {c \in Content : \A k \in Keys : c[k] \in {old[k], new[k]}}


\* ------------------------------------------------- outcomes of a flow step
\* What a flow does after an awaited call: make the next call, return a
\* status line, or fail with an error.  val carries a commit message.
Call(to) == [kind |-> "call", to |-> to, msg |-> <<>>, val |-> <<>>]
Return(msg) == [kind |-> "return", to |-> "idle", msg |-> msg, val |-> <<>>]
Throw(msg) == [kind |-> "throw", to |-> "idle", msg |-> msg, val |-> <<>>]
\* an external call that failed rejects with its own error
CommandFailure(at) == Throw(<<"CommandFailure", at>>)

\* getConfigOrThrow: a missing config is SyncConfigMissingError
getConfigOrThrow(res, next) ==
  CASE res = "ok" -> Call(next)
    [] res = "missing" -> Throw(<<"SyncConfigMissingError">>)
    [] OTHER -> CommandFailure("getConfigOrThrow")

\* ensureSecretsPolicy: ensureRepoPrivate is called only with secrets enabled
ensureSecretsPolicy(includeSecrets, visibility) ==
  IF ~includeSecrets THEN "skipped" ELSE visibility

\* ------------------------------------------- generateCommitMessage (commit)
\* Text is a sequence of characters (a fixed phrase counts as one).
Digits(n) ==
  LET RECURSIVE D(_)
      D(k) == IF k < 10 THEN <<k>> ELSE Append(D(k \div 10), k % 10)
      Chr(d) == CASE d = 0 -> "0" [] d = 1 -> "1" [] d = 2 -> "2" [] d = 3 -> "3"
                  [] d = 4 -> "4" [] d = 5 -> "5" [] d = 6 -> "6" [] d = 7 -> "7"
                  [] d = 8 -> "8" [] OTHER -> "9"
      ds == D(n)
  IN [i \in 1 .. Len(ds) |-> Chr(ds[i])]
\* String.prototype.padStart(width, '0')
padStart(s, width) ==
  IF Len(s) >= width THEN s ELSE [i \in 1 .. (width - Len(s)) |-> "0"] \o s
formatDate(date) ==
  Digits(date.year) \o <<"-">> \o padStart(Digits(date.month), 2)
    \o <<"-">> \o padStart(Digits(date.day), 2)
FallbackMessage(date) == <<"Sync OpenCode config (">> \o formatDate(date) \o <<")">>
\* the days a run may fall on
Dates == {[year |-> 2026, month |-> 1, day |-> 9],
          [year |-> 2025, month |-> 11, day |-> 30]}
\* what the model answers, once sanitized
ModelMessage == <<"m">>

\* ------------------------------------------- the text of a model response
\* A text is a sequence of characters. The characters sanitizeMessage tells
\* apart: a letter, the blank, the line feed (written LF) and the quote
\* characters (double quote DQ, single quote SQ, backtick BQ).
QuoteChars == {"DQ", "SQ", "BQ"}
Whitespace == {" ", "LF"}
MaxLineLength == 72
\* String.prototype.trim
RECURSIVE trimStart(_)
trimStart(s) == IF s # <<>> /\ Head(s) \in Whitespace THEN trimStart(Tail(s)) ELSE s
RECURSIVE trimEnd(_)
trimEnd(s) ==
  IF s # <<>> /\ s[Len(s)] \in Whitespace THEN trimEnd(SubSeq(s, 1, Len(s) - 1)) ELSE s
trim(s) == trimEnd(trimStart(s))
\* message.split at line feeds, element 0
firstLineOf(s) ==
  LET feeds == {i \in 1 .. Len(s) : s[i] = "LF"}
  IN IF feeds = {} THEN s
     ELSE SubSeq(s, 1, (CHOOSE i \in feeds : \A j \in feeds : i <= j) - 1)
\* the replace with the pattern of quote runs anchored at either end: the
\* run of quote characters at the start goes, and the run at the end of
\* what is left
RECURSIVE stripLeadingQuotes(_)
stripLeadingQuotes(s) ==
  IF s # <<>> /\ Head(s) \in QuoteChars THEN stripLeadingQuotes(Tail(s)) ELSE s
RECURSIVE stripTrailingQuotes(_)
stripTrailingQuotes(s) ==
  IF s # <<>> /\ s[Len(s)] \in QuoteChars
  THEN stripTrailingQuotes(SubSeq(s, 1, Len(s) - 1)) ELSE s
stripQuotes(s) == stripTrailingQuotes(stripLeadingQuotes(s))
\* String.prototype.slice(0, n)
slice(s, n) == SubSeq(s, 1, IF Len(s) < n THEN Len(s) ELSE n)
\* the empty text stands for the empty string and for null: both are falsy
\* where the code tests them
sanitizeMessage(message) ==
  LET firstLine == trim(firstLineOf(message))
      trimmed == trim(stripQuotes(firstLine))
  IN IF trimmed = <<>> THEN <<>>
     ELSE IF Len(trimmed) <= MaxLineLength THEN trimmed
     ELSE trim(slice(trimmed, MaxLineLength))
\* the text part of the response, trimmed; none when the text is empty
extractMessage(text) == trim(text)
\* what generateCommitMessage returns once the prompt has answered with text
messageFromResponse(text, fallback) ==
  LET message == extractMessage(text)
  IN IF message = <<>> THEN fallback
     ELSE LET sanitized == sanitizeMessage(message)
          IN IF sanitized = <<>> THEN fallback ELSE sanitized

GenSites == {"getDiffSummary", "resolveSmallModel", "sessionCreate",
             "sessionPrompt", "sessionDelete"}
\* The value the function returns, once it returns: kind "value".
Value(v) == [kind |-> "value", to |-> "idle", msg |-> <<>>, val |-> v]
Pending(to, v) == [kind |-> "call", to |-> to, msg |-> <<>>, val |-> v]
promptOutcomeRaising(res, fallback) ==
  IF res = "usable" THEN Pending("sessionDelete", ModelMessage)
  ELSE [kind |-> "throw", to |-> "idle", msg |-> <<"CommandFailure", "sessionPrompt">>,
        val |-> <<>>]
\* The try block around the prompt: a usable answer is the message, and a
\* rejected prompt, an answer without text and a blank one all give the
\* fallback; the finally block releases the session before any return.
promptOutcome(res, fallback) ==
  IF res = "usable" THEN Pending("sessionDelete", ModelMessage)
  ELSE Pending("sessionDelete", fallback)
sessionReleasedOrRaising(res, pending) ==
  IF res = "ok" THEN Value(pending)
  ELSE [kind |-> "throw", to |-> "idle", msg |-> <<"CommandFailure", "sessionDelete">>,
        val |-> <<>>]
\* the finally block: the delete is awaited inside its own try, and the value
\* the function was about to return is returned whether it failed or not
sessionReleased(res, pending) == Value(pending)
\* ctx.pending is the fallback until the prompt has answered, then the value
\* the finally block is about to let through
generateCommitMessage(at, res, ctx) ==
  CASE at = "enter" -> Pending("getDiffSummary", FallbackMessage(ctx.now))
    [] at = "getDiffSummary" ->
         \* a failing git diff is caught and counts as an empty summary
         IF res = "summary" THEN Pending("resolveSmallModel", ctx.pending)
         ELSE Value(ctx.pending)
    [] at = "resolveSmallModel" ->
         IF res = "model" THEN Pending("sessionCreate", ctx.pending)
         ELSE Value(ctx.pending)
    [] at = "sessionCreate" ->
         \* no session id: nothing to release
         IF res = "session" THEN Pending("sessionPrompt", ctx.pending)
         ELSE Value(ctx.pending)
    [] at = "sessionPrompt" -> promptOutcome(res, ctx.pending)
    [] OTHER -> \* sessionDelete: a failing delete is ignored
         sessionReleased(res, ctx.pending)

\* after the message: commit with it
WithMessage(g, next) == IF g.kind = "value" THEN Pending(next, g.val) ELSE g

\* ------------------------------------------------------------------- pull
pullDirtyCheckIgnored(res, root) ==
  IF res \in {"true", "false"} THEN Call("fetchAndFastForward")
  ELSE CommandFailure("hasLocalChanges")
\* the dirty check of pull: a dirty clone is a blocking error
pullDirtyCheck(res, root) ==
  CASE res = "true" ->
         Throw(<<"SyncCommandError", "uncommitted changes", root, "pulling">>)
    [] res = "false" -> Call("fetchAndFastForward")
    [] OTHER -> CommandFailure("hasLocalChanges")
pullAppliedAnyway(res) == Call("writeState_pull")
\* the state is written once syncRepoToLocal has returned
pullApplied(res) ==
  IF res = "ok" THEN Call("writeState_pull") ELSE CommandFailure("syncRepoToLocal")
pullFetchedAlwaysApplying(res) ==
  IF res \in {"updated", "uptodate"} THEN Call("loadOverrides_in")
  ELSE CommandFailure("fetchAndFastForward")
\* after the fetch: nothing to apply unless the branch moved
pullFetched(res) ==
  CASE res = "updated" -> Call("loadOverrides_in")
    [] res = "uptodate" -> Return(<<"Already up to date.">>)
    [] OTHER -> CommandFailure("fetchAndFastForward")
pull(at, res, ctx) ==
  CASE at = "getConfigOrThrow" -> getConfigOrThrow(res, "ensureRepoCloned")
    [] at = "ensureRepoCloned" ->
         IF res = "ok" THEN Call("ensureSecretsPolicy") ELSE CommandFailure(at)
    [] at = "ensureSecretsPolicy" ->
         CASE res \in {"ok", "skipped"} -> Call("resolveBranch")
           [] res = "notPrivate" -> Throw(<<"SecretsPolicyViolation">>)
           [] OTHER -> CommandFailure(at)
    [] at = "resolveBranch" -> Call("hasLocalChanges")
    [] at = "hasLocalChanges" -> pullDirtyCheck(res, ctx.root)
    [] at = "fetchAndFastForward" -> pullFetched(res)
    [] at = "loadOverrides_in" ->
         IF res = "ok" THEN Call("syncRepoToLocal") ELSE CommandFailure(at)
    [] at = "syncRepoToLocal" -> pullApplied(res)
    [] at = "writeState_pull" ->
         IF res = "ok" THEN Call("showToast_updated") ELSE CommandFailure(at)
    [] OTHER -> \* showToast_updated
         IF res = "ok"
         THEN Return(<<"Remote config applied. Restart OpenCode to use new settings.">>)
         ELSE CommandFailure(at)

\* ------------------------------------------------------------------- push
pushCommittedAnyway(res, message) == Pending("pushBranch", message)
\* the branch is pushed once commitAll has returned
pushCommitted(res, message) ==
  IF res = "ok" THEN Pending("pushBranch", message) ELSE CommandFailure("commitAll")
push(at, res, ctx) ==
  CASE at = "getConfigOrThrow" -> getConfigOrThrow(res, "ensureRepoCloned")
    [] at = "ensureRepoCloned" ->
         IF res = "ok" THEN Call("ensureSecretsPolicy") ELSE CommandFailure(at)
    [] at = "ensureSecretsPolicy" ->
         CASE res \in {"ok", "skipped"} -> Call("resolveBranch")
           [] res = "notPrivate" -> Throw(<<"SecretsPolicyViolation">>)
           [] OTHER -> CommandFailure(at)
    [] at = "resolveBranch" -> Call("hasLocalChanges")
    [] at = "hasLocalChanges" ->
         CASE res = "true" ->
                Throw(<<"SyncCommandError", "uncommitted changes", ctx.root, "pushing">>)
           [] res = "false" -> Call("loadOverrides_out")
           [] OTHER -> CommandFailure(at)
    [] at = "loadOverrides_out" ->
         IF res = "ok" THEN Call("syncLocalToRepo") ELSE CommandFailure(at)
    [] at = "syncLocalToRepo" ->
         IF res = "ok" THEN Call("hasLocalChanges_post") ELSE CommandFailure(at)
    [] at = "hasLocalChanges_post" ->
         CASE res = "true" -> generateCommitMessage("enter", res, ctx)
           [] res = "false" -> Return(<<"No local changes to push.">>)
           [] OTHER -> CommandFailure(at)
    [] at \in GenSites ->
         WithMessage(generateCommitMessage(at, res, ctx), "commitAll")
    [] at = "commitAll" -> pushCommitted(res, ctx.pending)
    [] at = "pushBranch" ->
         IF res = "ok" THEN Pending("writeState_push", ctx.pending) ELSE CommandFailure(at)
    [] OTHER -> \* writeState_push
         IF res = "ok" THEN Return(<<"Pushed changes: ">> \o ctx.pending)
         ELSE CommandFailure(at)


\* ------------------------------------------------- runStartup, startupSync
startupFetchedMerging(res) ==
  IF res = "updated" THEN Call("loadOverrides_in") ELSE Call("loadOverrides_out")
\* after the fetch: apply the update, or go on to push; a failed fetch
\* (the branches diverged) rejects
startupFetched(res) ==
  CASE res = "updated" -> Call("loadOverrides_in")
    [] res = "uptodate" -> Call("loadOverrides_out")
    [] OTHER -> CommandFailure("fetchAndFastForward")
startupChangedOrNot(res, ctx) ==
  CASE res \in {"true", "false"} -> generateCommitMessage("enter", res, ctx)
    [] OTHER -> CommandFailure("hasLocalChanges_post")
\* the check after syncLocalToRepo: nothing to commit ends the run
startupChanged(res, ctx) ==
  CASE res = "true" -> generateCommitMessage("enter", res, ctx)
    [] res = "false" -> Return(<<>>)
    [] OTHER -> CommandFailure("hasLocalChanges_post")
startupNotifiedGoingOn(res) ==
  IF res = "ok" THEN Call("loadOverrides_out") ELSE CommandFailure("showToast_updated")
\* the update has been applied and announced: the run is over
startupNotified(res) ==
  IF res = "ok" THEN Return(<<>>) ELSE CommandFailure("showToast_updated")
runStartup(at, res, ctx) ==
  CASE at = "ensureRepoCloned" ->
         IF res = "ok" THEN Call("ensureSecretsPolicy") ELSE CommandFailure(at)
    [] at = "ensureSecretsPolicy" ->
         CASE res \in {"ok", "skipped"} -> Call("resolveBranch")
           [] res = "notPrivate" -> Throw(<<"SecretsPolicyViolation">>)
           [] OTHER -> CommandFailure(at)
    [] at = "resolveBranch" -> Call("hasLocalChanges")
    [] at = "hasLocalChanges" ->
         CASE res = "true" -> Call("showToast_dirty")
           [] res = "false" -> Call("fetchAndFastForward")
           [] OTHER -> CommandFailure(at)
    [] at = "showToast_dirty" ->
         IF res = "ok" THEN Return(<<>>) ELSE CommandFailure(at)
    [] at = "fetchAndFastForward" -> startupFetched(res)
    [] at = "loadOverrides_in" ->
         IF res = "ok" THEN Call("syncRepoToLocal") ELSE CommandFailure(at)
    [] at = "syncRepoToLocal" ->
         IF res = "ok" THEN Call("writeState_pull") ELSE CommandFailure(at)
    [] at = "writeState_pull" ->
         IF res = "ok" THEN Call("showToast_updated") ELSE CommandFailure(at)
    [] at = "showToast_updated" -> startupNotified(res)
    [] at = "loadOverrides_out" ->
         IF res = "ok" THEN Call("syncLocalToRepo") ELSE CommandFailure(at)
    [] at = "syncLocalToRepo" ->
         IF res = "ok" THEN Call("hasLocalChanges_post") ELSE CommandFailure(at)
    [] at = "hasLocalChanges_post" -> startupChanged(res, ctx)
    [] at \in GenSites ->
         WithMessage(generateCommitMessage(at, res, ctx), "commitAll")
    [] at = "commitAll" ->
         IF res = "ok" THEN Pending("pushBranch", ctx.pending) ELSE CommandFailure(at)
    [] at = "pushBranch" ->
         IF res = "ok" THEN Pending("writeState_push", ctx.pending) ELSE CommandFailure(at)
    [] OTHER -> \* writeState_push
         IF res = "ok" THEN Return(<<>>) ELSE CommandFailure(at)

\* the error a failed runStartup hands to the catch block, to be shown
Caught(r) == [kind |-> "call", to |-> "showToast_error", msg |-> r.msg, val |-> <<>>]
startupSync(at, res, ctx) ==
  CASE at = "loadSyncConfig" ->
         CASE res = "ok" -> Call("ensureRepoCloned")
           [] res = "missing" -> Call("showToast_configure")
           [] OTHER -> CommandFailure(at)
    [] at = "showToast_configure" ->
         IF res = "ok" THEN Return(<<>>) ELSE CommandFailure(at)
    [] at = "showToast_error" ->
         IF res = "ok" THEN Return(<<>>) ELSE CommandFailure(at)
    [] OTHER ->
         LET r == runStartup(at, res, ctx)
         IN IF r.kind = "throw" THEN Caught(r) ELSE r

\* ---------------------------------------------------- init, enableSecrets
\* the options of init this model distinguishes
InitOptions == [repo : {"none", "ownerName", "url"}, create : BOOLEAN,
                includeSecrets : BOOLEAN, extra : {0}]
buildConfigFromInit(options) ==
  [exists |-> options.repo # "none", includeSecrets |-> options.includeSecrets,
   extra |-> options.extra]
init(at, res, ctx) ==
  CASE at = "enter" ->
         IF ctx.options.repo = "none"
         THEN Throw(<<"SyncCommandError", "Provide repo info">>)
         ELSE IF ~ctx.options.create THEN Call("writeSyncConfig")
         ELSE IF ctx.options.repo = "url"
         THEN Throw(<<"SyncCommandError", "Repo creation requires owner/name.">>)
         ELSE Call("createRepo")
    [] at = "createRepo" ->
         IF res = "ok" THEN Call("writeSyncConfig")
         ELSE Throw(<<"SyncCommandError", "Failed to create repo">>)
    [] at = "writeSyncConfig" ->
         IF res = "ok" THEN Call("ensureRepoCloned") ELSE CommandFailure(at)
    [] at = "ensureRepoCloned" ->
         IF res = "ok" THEN Call("ensureSecretsPolicy") ELSE CommandFailure(at)
    [] OTHER -> \* ensureSecretsPolicy
         CASE res \in {"ok", "skipped"} -> Return(<<"opencode-sync configured.", ctx.root>>)
           [] res = "notPrivate" -> Throw(<<"SecretsPolicyViolation">>)
           [] OTHER -> CommandFailure(at)

\* enableSecrets changes the loaded config in place; extra = NoVal keeps the
\* paths
enableSecretsConfig(c, extra) ==
  [c EXCEPT !.includeSecrets = TRUE,
            !.extra = IF extra # NoVal THEN extra ELSE @]
enableSecretsCheckedLate(res) == Call("writeSyncConfig")
\* the config is persisted once ensureRepoPrivate has returned
enableSecretsChecked(res) ==
  CASE res = "ok" -> Call("writeSyncConfig")
    [] res = "notPrivate" -> Throw(<<"SecretsPolicyViolation">>)
    [] OTHER -> CommandFailure("ensureRepoPrivate")
enableSecrets(at, res, ctx) ==
  CASE at = "getConfigOrThrow" -> getConfigOrThrow(res, "ensureRepoPrivate")
    [] at = "ensureRepoPrivate" -> enableSecretsChecked(res)
    [] OTHER -> \* writeSyncConfig
         IF res = "ok" THEN Return(<<"Secrets sync enabled for this repo.">>)
         ELSE CommandFailure(at)

\* the flow a run is in decides what follows a call
Step(f, at, res, ctx) ==
  CASE f = "pull" -> pull(at, res, ctx)
    [] f = "push" -> push(at, res, ctx)
    [] f = "startup" -> startupSync(at, res, ctx)
    [] f = "init" -> init(at, res, ctx)
    [] OTHER -> enableSecrets(at, res, ctx)


\* ------------------------------------------------------------ the actions
Me(p) == home[p]
Running(p) == p \in enabled /\ pc[p] # "idle"
At(p, sites) == p \in enabled /\ pc[p] \in sites
Ctx(p, now) ==
  [root |-> resolveRepoRoot(Me(p)), pending |-> commitMsg[p], now |-> now,
   options |-> CHOOSE o \in InitOptions : TRUE]
Today == CHOOSE d \in Dates : TRUE
\* what of the machine's persisted state a step changed
Touched(m) ==
  {x \in {"config"} : config'[m] # config[m]}
    \cup {x \in {"syncState"} : syncState'[m] # syncState[m]}
    \cup {x \in {"local"} : local'[m] # local[m]}
    \cup {x \in {"clone"} : <<cloned'[m], branch'[m], wt'[m]>> # <<cloned[m], branch[m], wt[m]>>}

\* the call at pc[p] ended with res: log it and go where the flow goes
Advance(p, res, now) ==
  LET r == Step(flow[p], pc[p], res, Ctx(p, now))
  IN /\ log' = [log EXCEPT ![p] = Append(@,
          IF pc[p] = "commitAll" THEN <<pc[p], res, commitMsg[p]>> ELSE <<pc[p], res>>)]
     /\ pc' = [pc EXCEPT ![p] = IF r.kind = "call" THEN r.to ELSE "done"]
     /\ outcome' = [outcome EXCEPT ![p] =
          CASE r.kind = "return" -> "returned"
            [] r.kind = "throw" -> "thrown"
            [] OTHER -> @]
     /\ result' = [result EXCEPT ![p] = r.msg]
     /\ commitMsg' = [commitMsg EXCEPT ![p] = IF r.kind = "call" THEN r.val ELSE @]
     /\ touched' = [touched EXCEPT ![p] = @ \cup Touched(Me(p))]
     /\ UNCHANGED <<flow, home, enabled, editsLeft, pulled, genVars>>

\* a run of startupSync, pull, push or enableSecrets begins
Begin(p, f) ==
  /\ p \in enabled /\ pc[p] = "idle"
  /\ flow' = [flow EXCEPT ![p] = f]
  /\ pc' = [pc EXCEPT ![p] =
       IF f = "startup" THEN "loadSyncConfig" ELSE "getConfigOrThrow"]
  /\ log' = [log EXCEPT ![p] = <<>>]
  /\ outcome' = [outcome EXCEPT ![p] = "running"]
  /\ result' = [result EXCEPT ![p] = <<>>]
  /\ loaded' = [loaded EXCEPT ![p] = NoConfig]
  /\ commitMsg' = [commitMsg EXCEPT ![p] = <<>>]
  /\ session' = [session EXCEPT ![p] = "none"]
  /\ plan' = [plan EXCEPT ![p] = NoPlan]
  /\ touched' = [touched EXCEPT ![p] = {}]
  /\ UNCHANGED <<machVars, remoteVars, envVars, pulled, genVars>>

Invoke(p) == \E f \in Flows \ {"init"} : Begin(p, f)

\* init(options): the part before its first awaited call
InvokeInit(p) ==
  /\ p \in enabled /\ pc[p] = "idle"
  /\ \E options \in InitOptions :
       LET r == init("enter", "", [Ctx(p, Today) EXCEPT !.options = options])
       IN /\ pc' = [pc EXCEPT ![p] = IF r.kind = "call" THEN r.to ELSE "done"]
          /\ outcome' = [outcome EXCEPT ![p] =
               IF r.kind = "throw" THEN "thrown" ELSE "running"]
          /\ result' = [result EXCEPT ![p] = r.msg]
          /\ loaded' = [loaded EXCEPT ![p] = buildConfigFromInit(options)]
  /\ flow' = [flow EXCEPT ![p] = "init"]
  /\ log' = [log EXCEPT ![p] = <<>>]
  /\ commitMsg' = [commitMsg EXCEPT ![p] = <<>>]
  /\ session' = [session EXCEPT ![p] = "none"]
  /\ plan' = [plan EXCEPT ![p] = NoPlan]
  /\ touched' = [touched EXCEPT ![p] = {}]
  /\ UNCHANGED <<machVars, remoteVars, envVars, pulled, genVars>>

\* loadSyncConfig, also inside getConfigOrThrow
LoadSyncConfig(p) ==
  /\ At(p, {"loadSyncConfig", "getConfigOrThrow"})
  /\ UNCHANGED <<machVars, remoteVars, session, plan>>
  /\ \E failed \in BOOLEAN, extra \in {NoVal, 1} :
       /\ failed => CanFail
       /\ Spend(failed)
       /\ flow[p] # "enableSecrets" => extra = NoVal
       /\ LET res == IF failed THEN "fail"
                     ELSE IF config[Me(p)].exists THEN "ok" ELSE "missing"
          IN /\ loaded' = [loaded EXCEPT ![p] =
                  IF res # "ok" THEN @
                  ELSE IF flow[p] = "enableSecrets"
                  THEN enableSecretsConfig(config[Me(p)], extra)
                  ELSE config[Me(p)]]
             /\ Advance(p, res, Today)

CreateRepo(p) ==
  /\ At(p, {"createRepo"})
  /\ UNCHANGED <<machVars, remoteVars, loaded, session, plan>>
  /\ \E failed \in BOOLEAN :
       /\ failed => CanFail
       /\ Spend(failed)
       /\ Advance(p, IF failed THEN "fail" ELSE "ok", Today)

\* writeSyncConfig persists the flow's config
WriteSyncConfig(p) ==
  /\ At(p, {"writeSyncConfig"})
  /\ UNCHANGED <<syncState, local, overrides, cloned, branch, wt, remoteVars,
                 loaded, session, plan>>
  /\ \E failed \in BOOLEAN :
       /\ failed => CanFail
       /\ Spend(failed)
       /\ config' = IF failed THEN config
                    ELSE [config EXCEPT ![Me(p)] = loaded[p]]
       /\ Advance(p, IF failed THEN "fail" ELSE "ok", Today)

\* ensureRepoCloned clones the remote when the clone is absent
EnsureRepoCloned(p) ==
  /\ At(p, {"ensureRepoCloned"})
  /\ UNCHANGED <<config, syncState, local, overrides, remoteVars, loaded, session, plan>>
  /\ \E failed \in BOOLEAN :
       /\ failed => CanFail
       /\ Spend(failed)
       /\ IF failed \/ cloned[Me(p)]
          THEN UNCHANGED <<cloned, branch, wt>>
          ELSE /\ cloned' = [cloned EXCEPT ![Me(p)] = TRUE]
               /\ branch' = [branch EXCEPT ![Me(p)] = remote]
               /\ wt' = [wt EXCEPT ![Me(p)] = HeadTree(remote)]
       /\ Advance(p, IF failed THEN "fail" ELSE "ok", Today)

\* ensureSecretsPolicy, and enableSecrets's own ensureRepoPrivate
EnsureRepoPrivate(p) ==
  /\ At(p, {"ensureSecretsPolicy", "ensureRepoPrivate"})
  /\ UNCHANGED <<machVars, remoteVars, loaded, session, plan>>
  /\ \E failed \in BOOLEAN :
       LET asked == pc[p] = "ensureRepoPrivate" \/ loaded[p].includeSecrets
           visibility == IF failed THEN "fail" ELSE ensureRepoPrivate
       IN /\ failed => (CanFail /\ asked)
          /\ Spend(failed)
          /\ Advance(p, IF pc[p] = "ensureRepoPrivate" THEN visibility
                        ELSE ensureSecretsPolicy(loaded[p].includeSecrets, visibility),
                     Today)

\* resolveBranch: a failing getRepoStatus is caught, and the configured
\* branch stands in for the observed one; the flow sees no difference
ResolveBranch(p) ==
  /\ At(p, {"resolveBranch"})
  /\ UNCHANGED <<machVars, remoteVars, loaded, session, plan>>
  /\ \E failed \in BOOLEAN :
       /\ failed => CanFail
       /\ Spend(failed)
       /\ Advance(p, "ok", Today)

\* hasLocalChanges, before and after the reconciliation
HasLocalChanges(p) ==
  /\ At(p, {"hasLocalChanges", "hasLocalChanges_post"})
  /\ UNCHANGED <<machVars, remoteVars, loaded, session, plan>>
  /\ \E failed \in BOOLEAN, now \in Dates :
       /\ failed => CanFail
       /\ Spend(failed)
       /\ (failed \/ pc[p] = "hasLocalChanges" \/ ~hasLocalChanges(Me(p)))
            => now = Today
       /\ Advance(p, IF failed THEN "fail"
                     ELSE IF hasLocalChanges(Me(p)) THEN "true" ELSE "false", now)

\* fetchAndFastForward: git refuses to fast-forward over a dirty tree
FetchAndFastForward(p) ==
  /\ At(p, {"fetchAndFastForward"})
  /\ UNCHANGED <<config, syncState, local, overrides, cloned, remoteVars,
                 loaded, session, plan>>
  /\ \E failed \in BOOLEAN :
       LET m == Me(p)
           verdict == fetchAndFastForward(m)
           res == IF failed \/ (verdict = "updated" /\ hasLocalChanges(m)) THEN "fail"
                  ELSE verdict
       IN /\ failed => CanFail
          /\ Spend(failed)
          /\ IF res = "updated"
             THEN /\ branch' = [branch EXCEPT ![m] = remote]
                  /\ wt' = [wt EXCEPT ![m] = HeadTree(remote)]
             ELSE UNCHANGED <<branch, wt>>
          /\ Advance(p, res, Today)

LoadOverrides(p) ==
  /\ At(p, {"loadOverrides_in", "loadOverrides_out"})
  /\ UNCHANGED <<machVars, remoteVars, loaded, session>>
  /\ \E failed \in BOOLEAN :
       /\ failed => CanFail
       /\ Spend(failed)
       /\ plan' = [plan EXCEPT ![p] = IF failed THEN @ ELSE buildSyncPlan(loaded[p])]
       /\ Advance(p, IF failed THEN "fail" ELSE "ok", Today)

\* syncRepoToLocal writes the local tree only
SyncRepoToLocal(p) ==
  /\ At(p, {"syncRepoToLocal"})
  /\ UNCHANGED <<config, syncState, overrides, cloned, branch, wt, remoteVars,
                 loaded, session, plan>>
  /\ \E failed \in BOOLEAN :
       LET m == Me(p)
           target == syncRepoToLocal(m, overrides[m])
       IN /\ failed => CanFail
          /\ Spend(failed)
          /\ IF failed
             THEN \E c \in Partial(local[m], target) : local' = [local EXCEPT ![m] = c]
             ELSE local' = [local EXCEPT ![m] = target]
          /\ Advance(p, IF failed THEN "fail" ELSE "ok", Today)

\* syncLocalToRepo writes the clone's working tree only
SyncLocalToRepo(p) ==
  /\ At(p, {"syncLocalToRepo"})
  /\ UNCHANGED <<config, syncState, local, overrides, cloned, branch, remoteVars,
                 loaded, session, plan>>
  /\ \E failed \in BOOLEAN :
       LET m == Me(p)
           target == syncLocalToRepo(m, overrides[m])
       IN /\ failed => CanFail
          /\ Spend(failed)
          /\ IF failed
             THEN \E c \in Partial(wt[m], target) : wt' = [wt EXCEPT ![m] = c]
             ELSE wt' = [wt EXCEPT ![m] = target]
          /\ Advance(p, IF failed THEN "fail" ELSE "ok", Today)

\* writeState replaces the fields the call names
WriteState(p) ==
  /\ At(p, {"writeState_pull", "writeState_push"})
  /\ UNCHANGED <<config, local, overrides, cloned, branch, wt, remoteVars,
                 loaded, session, plan>>
  /\ \E failed \in BOOLEAN :
       /\ failed => CanFail
       /\ Spend(failed)
       /\ syncState' =
            IF failed THEN syncState
            ELSE IF pc[p] = "writeState_pull"
            THEN [syncState EXCEPT ![Me(p)].lastPull = TRUE,
                                   ![Me(p)].lastRemoteUpdate = TRUE]
            ELSE [syncState EXCEPT ![Me(p)].lastPush = TRUE]
       /\ Advance(p, IF failed THEN "fail" ELSE "ok", Today)

\* showToast: the notification is shown, or the call fails
ShowToast(p) ==
  /\ At(p, {"showToast_configure", "showToast_dirty", "showToast_updated",
            "showToast_error"})
  /\ UNCHANGED <<machVars, remoteVars, loaded, session, plan>>
  /\ \E failed \in BOOLEAN :
       /\ failed => CanFail
       /\ Spend(failed)
       /\ Advance(p, IF failed THEN "fail" ELSE "ok", Today)

\* generateCommitMessage, call by call
GetDiffSummary(p) ==
  /\ At(p, {"getDiffSummary"})
  /\ UNCHANGED <<machVars, remoteVars, loaded, session, plan>>
  /\ \E res \in {"fail", "empty", "summary"} :
       /\ res = "fail" => CanFail
       /\ Spend(res = "fail")
       /\ Advance(p, res, Today)

ResolveSmallModel(p) ==
  /\ At(p, {"resolveSmallModel"})
  /\ UNCHANGED <<machVars, remoteVars, loaded, session, plan>>
  /\ \E res \in {"fail", "none", "model"} :
       /\ res = "fail" => CanFail
       /\ Spend(res = "fail")
       /\ Advance(p, res, Today)

SessionCreate(p) ==
  /\ At(p, {"sessionCreate"})
  /\ UNCHANGED <<machVars, remoteVars, loaded, plan>>
  /\ \E res \in {"fail", "noId", "session"} :
       /\ res = "fail" => CanFail
       /\ Spend(res = "fail")
       /\ session' = [session EXCEPT ![p] = IF res = "session" THEN "open" ELSE @]
       /\ Advance(p, res, Today)

SessionPrompt(p) ==
  /\ At(p, {"sessionPrompt"})
  /\ UNCHANGED <<machVars, remoteVars, loaded, session, plan>>
  /\ \E res \in {"fail", "noText", "blank", "usable"} :
       /\ res = "fail" => CanFail
       /\ Spend(res = "fail")
       /\ Advance(p, res, Today)

SessionDelete(p) ==
  /\ At(p, {"sessionDelete"})
  /\ UNCHANGED <<machVars, remoteVars, loaded, plan>>
  /\ \E failed \in BOOLEAN :
       /\ failed => CanFail
       /\ Spend(failed)
       /\ session' = [session EXCEPT ![p] = IF failed THEN @ ELSE "released"]
       /\ Advance(p, IF failed THEN "fail" ELSE "ok", Today)

\* commitAll: git commits the working tree, and fails with nothing to commit
CommitAll(p) ==
  /\ At(p, {"commitAll"})
  /\ UNCHANGED <<config, syncState, local, overrides, cloned, wt, remoteVars,
                 loaded, session, plan>>
  /\ \E failed \in BOOLEAN :
       LET m == Me(p)
           res == IF failed \/ ~hasLocalChanges(m) THEN "fail" ELSE "ok"
       IN /\ failed => CanFail
          /\ Spend(failed)
          /\ branch' = IF res = "fail" THEN branch
                       ELSE [branch EXCEPT ![m] =
                               Append(@, [tree |-> wt[m], author |-> m])]
          /\ Advance(p, res, Today)

\* pushBranch: the remote rejects a branch it is not an ancestor of
PushBranch(p) ==
  /\ At(p, {"pushBranch"})
  /\ UNCHANGED <<machVars, remotePrivate, loaded, session, plan>>
  /\ \E failed \in BOOLEAN :
       LET m == Me(p)
           res == IF failed \/ ~pushAccepted(m) THEN "fail" ELSE "ok"
       IN /\ failed => CanFail
          /\ Spend(failed)
          /\ remote' = IF res = "fail" THEN remote ELSE branch[m]
          /\ Advance(p, res, Today)

\* the caller has the run's result; the next run starts from scratch
Exit(p) ==
  /\ At(p, {"done"})
  /\ pc' = [pc EXCEPT ![p] = "idle"]
  /\ flow' = [flow EXCEPT ![p] = "init"]
  /\ log' = [log EXCEPT ![p] = <<>>]
  /\ outcome' = [outcome EXCEPT ![p] = "running"]
  /\ result' = [result EXCEPT ![p] = <<>>]
  /\ loaded' = [loaded EXCEPT ![p] = NoConfig]
  /\ commitMsg' = [commitMsg EXCEPT ![p] = <<>>]
  /\ session' = [session EXCEPT ![p] = "none"]
  /\ plan' = [plan EXCEPT ![p] = NoPlan]
  /\ touched' = [touched EXCEPT ![p] = {}]
  /\ pulled' = [pulled EXCEPT ![Me(p)] =
       flow[p] = "pull" /\ outcome[p] = "returned" /\ DidWith(p, "syncRepoToLocal", "ok")]
  /\ UNCHANGED <<machVars, remoteVars, envVars, genVars>>

\* nobody runs a flow on machine m
Quiet(m) == \A p \in enabled : home[p] = m => pc[p] = "idle"

\* ------------------------------------------------------- the environment
\* the user edits a key of the local configuration
EditLocal(m) ==
  /\ editsLeft > 0
  /\ m \in {home[p] : p \in enabled}
  /\ Quiet(m)
  /\ \E k \in Keys, v \in Vals :
       /\ v # local[m][k]
       /\ local' = [local EXCEPT ![m][k] = v]
  /\ editsLeft' = editsLeft - 1
  /\ pulled' = [pulled EXCEPT ![m] = FALSE]
  /\ UNCHANGED <<config, syncState, overrides, cloned, branch, wt, remoteVars,
                 runVars, localVars, home, enabled, failBudget, genVars>>

\* a machine outside the model pushes a commit
OtherMachinePush ==
  /\ editsLeft > 0
  /\ \E k \in Keys, v \in Vals :
       /\ v # HeadTree(remote)[k]
       /\ remote' = Append(remote, [tree |-> [HeadTree(remote) EXCEPT ![k] = v],
                                    author |-> "other"])
  /\ editsLeft' = editsLeft - 1
  /\ UNCHANGED <<machVars, remotePrivate, runVars, localVars, home, enabled,
                 failBudget, pulled, genVars>>

\* ------------------------------------------------------ the specifications
\* the machines, the remote and the flow instances before any run
Installed(h, en, budget, ovs, cfgs) ==
  /\ home = h
  /\ enabled = en
  /\ config \in [Machines -> cfgs \cup {NoConfig}]
  /\ \A m \in Machines : IF m \in {h[p] : p \in en} THEN config[m] \in cfgs
                                                   ELSE config[m] = NoConfig
  /\ syncState = [m \in Machines |-> NeverSynced]
  /\ local \in [Machines -> {InitialContent, [InitialContent EXCEPT !["k2"] = MaxVal]}]
  /\ \A m \in Machines \ {h[p] : p \in en} : local[m] = InitialContent
  /\ overrides \in [Machines -> ovs]
  /\ \A m \in Machines \ {h[p] : p \in en} : overrides[m] = NoOverrides
  /\ cloned = [m \in Machines |-> FALSE]
  /\ remote = << [tree |-> InitialContent, author |-> "other"] >>
  /\ branch = [m \in Machines |-> remote]
  /\ wt = [m \in Machines |-> InitialContent]
  /\ remotePrivate \in BOOLEAN
  /\ flow = [p \in Procs |-> "init"]
  /\ pc = [p \in Procs |-> "idle"]
  /\ log = [p \in Procs |-> <<>>]
  /\ outcome = [p \in Procs |-> "running"]
  /\ result = [p \in Procs |-> <<>>]
  /\ loaded = [p \in Procs |-> NoConfig]
  /\ commitMsg = [p \in Procs |-> <<>>]
  /\ session = [p \in Procs |-> "none"]
  /\ touched = [p \in Procs |-> {}]
  /\ plan = [p \in Procs |-> NoPlan]
  /\ editsLeft = MaxEdits
  /\ failBudget = budget
  /\ pulled = [m \in Machines |-> FALSE]
\* no prompt has answered
InitFrom(h, en, budget, ovs, cfgs) ==
  /\ Installed(h, en, budget, ovs, cfgs)
  /\ response = <<>>
  /\ returned = <<>>
\* machines that were never configured
InitWith(h, en, budget, ovs) == InitFrom(h, en, budget, ovs, {NoConfig})

\* one machine, one flow at a time, any call may fail at any time
Init == InitWith([p \in Procs |-> "m1"], {"p1"}, 0 - 1, {NoOverrides})

\* a run that has begun goes on: its next awaited call settles
Run(p) ==
  \/ LoadSyncConfig(p) \/ CreateRepo(p)
  \/ WriteSyncConfig(p) \/ EnsureRepoCloned(p) \/ EnsureRepoPrivate(p)
  \/ ResolveBranch(p) \/ HasLocalChanges(p) \/ FetchAndFastForward(p)
  \/ LoadOverrides(p) \/ SyncRepoToLocal(p) \/ SyncLocalToRepo(p)
  \/ WriteState(p) \/ ShowToast(p) \/ GetDiffSummary(p)
  \/ ResolveSmallModel(p) \/ SessionCreate(p) \/ SessionPrompt(p)
  \/ SessionDelete(p) \/ CommitAll(p) \/ PushBranch(p) \/ Exit(p)

Next ==
  \/ \E p \in Procs : Invoke(p) \/ InvokeInit(p) \/ Run(p)
  \/ \E m \in Machines : EditLocal(m)
  \/ OtherMachinePush

Spec == Init /\ [][Next]_vars

\* one machine whose remote is private, where at most MaxFailures calls fail;
\* every run that began completes, and the machine keeps running the
\* startup, pull and push flows
FairInit ==
  /\ InitWith([p \in Procs |-> "m1"], {"p1"}, MaxFailures, {NoOverrides})
  /\ remotePrivate
Fairness ==
  \A p \in Procs :
    /\ WF_vars(Run(p))
    /\ \A f \in {"startup", "pull", "push"} : SF_vars(Begin(p, f))
FairSpec == FairInit /\ [][Next]_vars /\ Fairness


\* config files written by hand: includeSecrets and extraSecretPaths are free
HandConfigs == [exists : {TRUE}, includeSecrets : BOOLEAN, extra : 0 .. MaxExtra]
\* overrides files: none, or one that sets k1
OverlayChoices == {NoOverrides} \cup {[NoOverrides EXCEPT !["k1"] = v] : v \in Vals}
\* one configured machine with an overrides file, a private remote, and at
\* most MaxFailures failing calls
OverlayInit ==
  /\ InitFrom([p \in Procs |-> "m1"], {"p1"}, MaxFailures, OverlayChoices, HandConfigs)
  /\ remotePrivate
OverlaySpec == OverlayInit /\ [][Next]_vars

\* two operations of one service at a time on one configured machine that
\* has a local edit to push, no call failing
ConcurrentInit ==
  /\ InitFrom([p \in Procs |-> "m1"], Procs, 0, {NoOverrides},
              {[exists |-> TRUE, includeSecrets |-> FALSE, extra |-> 0]})
  /\ remotePrivate
  /\ local["m1"] # InitialContent
\* the calls of the flows that write: startup, pull and push
SyncRun(p) ==
  \/ LoadSyncConfig(p) \/ EnsureRepoCloned(p) \/ EnsureRepoPrivate(p)
  \/ ResolveBranch(p) \/ HasLocalChanges(p) \/ FetchAndFastForward(p)
  \/ LoadOverrides(p) \/ SyncRepoToLocal(p) \/ SyncLocalToRepo(p)
  \/ WriteState(p) \/ ShowToast(p) \/ GetDiffSummary(p)
  \/ ResolveSmallModel(p) \/ SessionCreate(p) \/ SessionPrompt(p)
  \/ SessionDelete(p) \/ CommitAll(p) \/ PushBranch(p) \/ Exit(p)
ConcurrentNext ==
  \/ \E p \in Procs : \E f \in {"startup", "pull", "push"} : Begin(p, f)
  \/ \E p \in Procs : SyncRun(p)
  \/ OtherMachinePush
ConcurrentSpec == ConcurrentInit /\ [][ConcurrentNext]_vars

\* --------------------------------------------- the answers of the model
MaxText == 4
MaxEdge == 2
\* the characters an answer is made of: BQ behaves as the other two quotes
Alphabet == {"a", " ", "LF", "DQ", "SQ"}
Texts(n) == UNION {[1 .. k -> Alphabet] : k \in 0 .. n}
Fill(k) == [i \in 1 .. k |-> "a"]
\* every short text, and long ones around the limit of the line with any
\* characters at either end
Responses ==
  Texts(MaxText)
    \cup {h \o Fill(k) \o t : h \in Texts(MaxEdge), t \in Texts(MaxEdge),
                              k \in (MaxLineLength - 3) .. (MaxLineLength + 1)}
\* a prompt has answered with some text; no flow is running
ResponseInit ==
  /\ Installed([p \in Procs |-> "m1"], {}, 0, {NoOverrides}, {NoConfig})
  /\ remotePrivate
  /\ response \in Responses
  /\ returned = <<>>
\* generateCommitMessage goes from the answer to its return
Answer ==
  /\ returned = <<>>
  /\ returned' = <<messageFromResponse(response, FallbackMessage(Today))>>
  /\ UNCHANGED <<machVars, remoteVars, runVars, localVars, envVars, pulled, response>>
ResponseNext == Answer
ResponseSpec == ResponseInit /\ [][ResponseNext]_vars

\* ------------------------------------------------------------- the claims
\* the calls that fetch, reconcile, commit, push or write the SyncState
FetchCalls == {"fetchAndFastForward"}
ReconcileCalls == {"syncRepoToLocal", "syncLocalToRepo"}
StateWrites == {"writeState_pull", "writeState_push"}
SyncCalls == FetchCalls \cup ReconcileCalls \cup {"commitAll", "pushBranch"}
               \cup StateWrites
NoneOf(p, sites) == Calls(p) \cap sites = {}
ToastCalls == {"showToast_configure", "showToast_dirty", "showToast_updated",
               "showToast_error"}
\* the calls of this run that failed
FailedCalls(p) == {log[p][i][1] : i \in {j \in 1 .. Len(log[p]) : log[p][j][2] = "fail"}}
\* call a was logged with result res before call b was made
Before(p, a, res, b) ==
  \E i, j \in 1 .. Len(log[p]) :
     i < j /\ log[p][i][1] = a /\ log[p][i][2] = res /\ log[p][j][1] = b

\* C1: whenever hasLocalChanges reports true at the dirty check of pull or
\* push, the run fails at once with the blocking error that names the repo
\* path, and has made no fetch, no reconcile, no commit, no push and no
\* SyncState write.
C1_DirtyBlocksPullAndPush ==
  \A p \in Procs :
    (flow[p] \in {"pull", "push"} /\ DidWith(p, "hasLocalChanges", "true")) =>
      /\ pc[p] = "done" /\ outcome[p] = "thrown"
      /\ result[p][1] = "SyncCommandError"
      /\ result[p][3] = resolveRepoRoot(Me(p))
      /\ NoneOf(p, SyncCalls)
      /\ touched[p] \cap {"syncState", "local", "config"} = {}
C1_DirtyPullReached ==
  \E p \in Procs : flow[p] = "pull" /\ DidWith(p, "hasLocalChanges", "true")

\* C2: when the startup flow finds the clone dirty, it shows a notification
\* and stops without a fetch, a reconcile, a commit, a push or a SyncState
\* write, and startupSync returns normally.
C2_DirtyStartupReturns ==
  \A p \in Procs :
    (flow[p] = "startup" /\ DidWith(p, "hasLocalChanges", "true") /\ pc[p] = "done") =>
      /\ outcome[p] = "returned"
      /\ Did(p, "showToast_dirty")
      /\ NoneOf(p, SyncCalls)
      /\ touched[p] \cap {"syncState", "local", "config"} = {}

\* C3: startupSync never raises an error to its caller, whatever the
\* outcome of the calls it makes.
C3_StartupNeverThrows ==
  \A p \in Procs : flow[p] = "startup" => outcome[p] # "thrown"


\* the run met the secrets policy with a remote that is not private
PolicyViolated(p) ==
  DidWith(p, "ensureSecretsPolicy", "notPrivate")
    \/ DidWith(p, "ensureRepoPrivate", "notPrivate")

\* C4: with includeSecrets true and a remote that is not private, the run
\* fails on the secrets policy before any write: no config write, no clone,
\* no file write, no commit, no push and no SyncState write in that run.
C4_PolicyFailsBeforeAnyWrite ==
  \A p \in Procs :
    PolicyViolated(p) =>
      /\ touched[p] = {}
      /\ NoneOf(p, SyncCalls \cup {"writeSyncConfig"})
      /\ pc[p] = "done" => outcome[p] = "thrown" \/ flow[p] = "startup"

EndedInFailure(p) ==
  /\ pc[p] = "done"
  /\ outcome[p] = "thrown" \/ Did(p, "showToast_error")

\* C6: after a flow that ends in a failure, the persisted config, the
\* SyncState, the local tree and the clone are the same as before the flow.
C6_NoPartialStateAfterFailure ==
  \A p \in Procs : EndedInFailure(p) => touched[p] = {}

\* the value of key k on machine m is an edit that no commit of the remote holds
Unpushed(m, k) == \A i \in 1 .. Len(remote) : remote[i].tree[k] # local[m][k]
\* C7: no step of a startup, pull or push run overwrites a local file whose
\* content is a local edit that was not pushed to the remote.
C7_UnpushedEditsNeverOverwritten ==
  [][\A m \in Machines, k \in Keys :
       (local'[m][k] # local[m][k] /\ editsLeft' = editsLeft) => ~Unpushed(m, k)]_vars

\* C8: once fetchAndFastForward has failed on diverged branches, the run
\* stops: pull fails with an error, startup has only its error notification
\* left, and the run makes no reconcile, commit, push or SyncState write.
C8_DivergedNeverReconciled ==
  \A p \in Procs :
    DidWith(p, "fetchAndFastForward", "diverged") =>
      /\ NoneOf(p, ReconcileCalls \cup StateWrites \cup {"commitAll", "pushBranch"})
      /\ touched[p] = {}
      /\ flow[p] = "pull" => pc[p] = "done" /\ outcome[p] = "thrown"
      /\ flow[p] = "startup" =>
           \/ pc[p] = "showToast_error"
           \/ pc[p] = "done" /\ Last(log[p])[1] = "showToast_error"
C8_DivergedStartupReached ==
  \E p \in Procs :
    /\ flow[p] = "startup" /\ pc[p] = "done"
    /\ DidWith(p, "fetchAndFastForward", "diverged")
    /\ DidWith(p, "showToast_error", "ok")

\* the commit message a run committed with
Committed(p) == {log[p][i][3] : i \in {j \in 1 .. Len(log[p]) : log[p][j][1] = "commitAll"}}
\* 'Sync OpenCode config (YYYY-MM-DD)'
IsFallback(msg) ==
  /\ Len(msg) = 12
  /\ msg[1] = "Sync OpenCode config (" /\ msg[12] = ")"
  /\ msg[6] = "-" /\ msg[9] = "-"
  /\ \E d \in Dates : msg = FallbackMessage(d)
\* C10 (as stated): a push or startup push whose commit and push succeed
\* still succeeds, and push returns 'Pushed changes: ' and the message.
C10_PushSucceedsAfterCommitAndPush ==
  \A p \in Procs :
    (pc[p] = "done" /\ DidWith(p, "commitAll", "ok") /\ DidWith(p, "pushBranch", "ok")) =>
      /\ outcome[p] = "returned"
      /\ ~Did(p, "showToast_error")
      /\ flow[p] = "push" =>
           \E msg \in Committed(p) : result[p] = <<"Pushed changes: ">> \o msg
\* C10 (amended): no call of the commit-message generation ends the run; the
\* message committed is the fallback 'Sync OpenCode config (YYYY-MM-DD)'
\* unless the prompt gave a usable answer; and a push whose commit, push and
\* SyncState write succeed returns 'Pushed changes: ' and that message.
C10_GenerationNeverRaises ==
  \A p \in Procs :
    /\ (pc[p] = "done" /\ log[p] # <<>>) => Last(log[p])[1] \notin GenSites
    /\ (pc[p] = "done" /\ DidWith(p, "hasLocalChanges_post", "true")) =>
         Did(p, "commitAll")
    /\ \A msg \in Committed(p) :
         IF DidWith(p, "sessionPrompt", "usable") THEN msg = ModelMessage
         ELSE IsFallback(msg)
    /\ (pc[p] = "done" /\ flow[p] = "push" /\ DidWith(p, "commitAll", "ok")
          /\ DidWith(p, "pushBranch", "ok") /\ DidWith(p, "writeState_push", "ok")) =>
         /\ outcome[p] = "returned"
         /\ \E msg \in Committed(p) : result[p] = <<"Pushed changes: ">> \o msg
C10_FallbackPushed ==
  \E p \in Procs :
    /\ flow[p] = "push" /\ pc[p] = "done" /\ outcome[p] = "returned"
    /\ DidWith(p, "sessionPrompt", "fail")
    /\ \E msg \in Committed(p) :
         IsFallback(msg) /\ result[p] = <<"Pushed changes: ">> \o msg


\* the local configuration of every machine that syncs is the remote's content
Converged == \A p \in enabled : local[Me(p)] = HeadTree(remote)
\* nobody edits any more and no call fails any more
Settled == editsLeft = 0 /\ failBudget = 0
\* nothing the flows refuse to go on with: configured, cloned, a clean
\* working tree, and a branch that has not diverged from the remote
Unblocked ==
  \A p \in enabled :
    /\ config[Me(p)].exists /\ cloned[Me(p)]
    /\ ~hasLocalChanges(Me(p))
    /\ fetchAndFastForward(Me(p)) # "diverged"
\* C9: once the users stopped editing and the external calls succeed, on
\* machines that are configured and whose clones are clean and not diverged,
\* eventually every machine's configuration equals the remote branch.
C9_EventuallyConverged == (Settled /\ Unblocked) ~> Converged

\* some call of the commit-message generation was made before call b
GeneratedBefore(p, b) ==
  \E i, j \in 1 .. Len(log[p]) :
     i < j /\ log[p][i][1] \in GenSites /\ log[p][j][1] = b
\* C11: in a push run whose clone was clean and whose syncLocalToRepo left
\* changes, the message is generated, then commitAll, then pushBranch, then
\* the lastPush write, each only after the one before it succeeded; a run
\* in which none of these fails returns 'Pushed changes: ' and the message
\* that commitAll was given.
C11_PushStepsInOrder ==
  \A p \in Procs :
    flow[p] = "push" =>
      /\ Did(p, "commitAll") =>
           /\ Before(p, "hasLocalChanges", "false", "syncLocalToRepo")
           /\ Before(p, "hasLocalChanges_post", "true", "commitAll")
           /\ GeneratedBefore(p, "commitAll")
      /\ Did(p, "pushBranch") => Before(p, "commitAll", "ok", "pushBranch")
      /\ Did(p, "writeState_push") => Before(p, "pushBranch", "ok", "writeState_push")
      /\ (pc[p] = "done" /\ DidWith(p, "hasLocalChanges_post", "true")) =>
           IF FailedCalls(p) \subseteq GenSites
           THEN /\ outcome[p] = "returned"
                /\ DidWith(p, "writeState_push", "ok")
                /\ \A msg \in Committed(p) : result[p] = <<"Pushed changes: ">> \o msg
                /\ Committed(p) # {}
           ELSE outcome[p] = "thrown"
C11_PushedWithModelMessage ==
  \E p \in Procs :
    /\ flow[p] = "push" /\ pc[p] = "done" /\ outcome[p] = "returned"
    /\ result[p] = <<"Pushed changes: ">> \o ModelMessage
    /\ Committed(p) = {ModelMessage}

\* C12: in a pull run, syncRepoToLocal is called and lastPull and
\* lastRemoteUpdate are written only when fetchAndFastForward reported an
\* update, and they are when it did and no call of the run failed; when the
\* fetch reports no update, pull returns 'Already up to date.' and has
\* changed neither the local tree nor the SyncState.
C12_PullAppliesIffUpdated ==
  \A p \in Procs :
    flow[p] = "pull" =>
      /\ Did(p, "syncRepoToLocal") =>
           Before(p, "fetchAndFastForward", "updated", "syncRepoToLocal")
      /\ Did(p, "writeState_pull") =>
           Before(p, "fetchAndFastForward", "updated", "writeState_pull")
      /\ touched[p] \cap {"local", "syncState"} # {} =>
           DidWith(p, "fetchAndFastForward", "updated")
      /\ (DidWith(p, "fetchAndFastForward", "updated") /\ pc[p] = "done"
            /\ FailedCalls(p) = {}) =>
           /\ DidWith(p, "syncRepoToLocal", "ok")
           /\ DidWith(p, "writeState_pull", "ok")
           /\ syncState[Me(p)].lastPull /\ syncState[Me(p)].lastRemoteUpdate
           /\ outcome[p] = "returned"
      /\ DidWith(p, "fetchAndFastForward", "uptodate") =>
           /\ pc[p] = "done" /\ outcome[p] = "returned"
           /\ result[p] = <<"Already up to date.">>
           /\ NoneOf(p, ReconcileCalls \cup StateWrites)
           /\ touched[p] \cap {"local", "syncState"} = {}
C12_PullUpToDateReached ==
  \E p \in Procs :
    /\ flow[p] = "pull" /\ DidWith(p, "fetchAndFastForward", "uptodate")
    /\ local[Me(p)] # HeadTree(remote)

\* the secret items of a plan, and the paths the catalog of secrets names
SecretItems(pl) == {i \in 1 .. Len(pl.items) : pl.items[i].isSecret}
\* C13: a plan built from a config with includeSecrets false has no secret
\* item and an empty allowlist, whatever extraSecretPaths holds; one built
\* with includeSecrets true holds every well-known secret path as a secret
\* item and as many allowlist entries as extraSecretPaths.
C13_SecretsAreOneGate ==
  \A p \in Procs :
    (Did(p, "loadOverrides_in") \/ Did(p, "loadOverrides_out")) /\ plan[p] # NoPlan =>
      IF loaded[p].includeSecrets
      THEN /\ \A s \in 1 .. Len(SecretPaths) :
                \E i \in SecretItems(plan[p]) : plan[p].items[i].path = SecretPaths[s]
           /\ Len(plan[p].allowlist) = loaded[p].extra
      ELSE /\ SecretItems(plan[p]) = {}
           /\ plan[p].allowlist = <<>>
C13_PlanWithoutSecretsReached ==
  \E p \in Procs :
    /\ plan[p] # NoPlan /\ ~loaded[p].includeSecrets /\ loaded[p].extra > 0

\* C14: reconciling repo->local and then local->repo, with the same
\* overrides and no edit in between, leaves the clone's working tree as it
\* was; so a push run right after a pull that reconciled finds no changes,
\* makes no commit and reports that there is nothing to push.
C14_RoundTripStable ==
  /\ \A c \in Content, ov \in OverlayChoices :
       stripOverrides(applyOverrides(c, ov), ov, c) = c
  /\ \A p \in Procs :
       (flow[p] = "push" /\ pulled[Me(p)]) =>
         /\ DidWith(p, "syncLocalToRepo", "ok") => ~hasLocalChanges(Me(p))
         /\ ~DidWith(p, "hasLocalChanges_post", "true")
         /\ ~Did(p, "commitAll")
         /\ "clone" \notin touched[p]
         /\ (pc[p] = "done" /\ outcome[p] = "returned") =>
              result[p] = <<"No local changes to push.">>
C14_PushAfterPullReached ==
  \E p \in Procs :
    /\ flow[p] = "push" /\ pulled[Me(p)] /\ pc[p] = "done"
    /\ result[p] = <<"No local changes to push.">>
    /\ \E k \in Keys : /\ overrides[Me(p)][k] # NoVal
                       /\ overrides[Me(p)][k] # wt[Me(p)][k]
                       /\ local[Me(p)][k] = overrides[Me(p)][k]

\* C15: after every repo->local reconciliation, in pull and in startup, each
\* key that the overrides set holds the override value in the local
\* configuration, whatever the repo holds for it.
C15_OverlayWins ==
  \A p \in Procs :
    DidWith(p, "syncRepoToLocal", "ok") =>
      /\ flow[p] \in {"pull", "startup"}
      /\ \A k \in Keys :
           IF overrides[Me(p)][k] # NoVal
           THEN local[Me(p)][k] = overrides[Me(p)][k]
           ELSE local[Me(p)][k] = wt[Me(p)][k]
C15_OverlayOverRepoReached ==
  \E p \in Procs :
    /\ flow[p] = "startup" /\ DidWith(p, "syncRepoToLocal", "ok")
    /\ \E k \in Keys : /\ overrides[Me(p)][k] # NoVal
                       /\ overrides[Me(p)][k] # wt[Me(p)][k]

\* C16: enableSecrets writes the config file, with includeSecrets true and
\* the paths it was given, only after ensureRepoPrivate succeeded; when the
\* check fails the persisted config is unchanged; and enableSecrets never
\* fetches, reconciles, commits, pushes or writes the SyncState.
C16_EnableSecretsChecksFirst ==
  \A p \in Procs :
    flow[p] = "enableSecrets" =>
      /\ Did(p, "writeSyncConfig") => Before(p, "ensureRepoPrivate", "ok", "writeSyncConfig")
      /\ DidWith(p, "writeSyncConfig", "ok") =>
           /\ config[Me(p)].includeSecrets
           /\ config[Me(p)] = loaded[p]
      /\ "config" \in touched[p] => DidWith(p, "writeSyncConfig", "ok")
      /\ (Did(p, "ensureRepoPrivate") /\ ~DidWith(p, "ensureRepoPrivate", "ok")) =>
           /\ touched[p] = {}
           /\ pc[p] = "done" /\ outcome[p] = "thrown"
      /\ NoneOf(p, SyncCalls)
      /\ touched[p] \subseteq {"config"}
C16_RefusedOnPublicRemote ==
  \E p \in Procs :
    /\ flow[p] = "enableSecrets" /\ pc[p] = "done"
    /\ DidWith(p, "ensureRepoPrivate", "notPrivate")
    /\ config[Me(p)].exists /\ ~config[Me(p)].includeSecrets

\* the run passed its dirty check and went on to reconcile or to commit
WentOnToWrite(p) ==
  /\ DidWith(p, "hasLocalChanges", "false")
  /\ Calls(p) \cap (ReconcileCalls \cup {"commitAll"}) # {}
\* C17: of two startup, pull or push runs that are in progress at the same
\* time on one clone, at most one has passed its dirty check and gone on to
\* reconcile or commit.
C17_SecondFlowAborts ==
  \A p, q \in Procs :
    (p # q /\ Me(p) = Me(q) /\ pc[p] \notin {"idle", "done"} /\ pc[q] \notin {"idle", "done"})
      => ~(WentOnToWrite(p) /\ WentOnToWrite(q))

\* the calls that carry local content to the clone and on to the remote
OutwardCalls == {"loadOverrides_out", "syncLocalToRepo", "hasLocalChanges_post",
                 "commitAll", "pushBranch", "writeState_push"} \cup GenSites
\* C18: a startup run whose fetch reported an update reconciles repo->local,
\* writes lastPull and lastRemoteUpdate, shows the update toast and stops;
\* it makes no syncLocalToRepo, no commit, no push and no lastPush write.
C18_StartupOneDirection ==
  \A p \in Procs :
    (flow[p] = "startup" /\ DidWith(p, "fetchAndFastForward", "updated")) =>
      /\ NoneOf(p, OutwardCalls)
      /\ Did(p, "writeState_pull") =>
           Before(p, "syncRepoToLocal", "ok", "writeState_pull")
      /\ Did(p, "showToast_updated") =>
           Before(p, "writeState_pull", "ok", "showToast_updated")
      /\ DidWith(p, "showToast_updated", "ok") =>
           /\ pc[p] = "done" /\ outcome[p] = "returned"
           /\ log[p][Len(log[p])][1] = "showToast_updated"
      /\ (pc[p] = "done" /\ FailedCalls(p) = {}) =>
           /\ DidWith(p, "syncRepoToLocal", "ok")
           /\ DidWith(p, "writeState_pull", "ok")
           /\ syncState[Me(p)].lastPull /\ syncState[Me(p)].lastRemoteUpdate
           /\ DidWith(p, "showToast_updated", "ok")
C18_StartupUpdatedReached ==
  \E p \in Procs :
    /\ flow[p] = "startup" /\ pc[p] = "done" /\ outcome[p] = "returned"
    /\ DidWith(p, "fetchAndFastForward", "updated")
    /\ DidWith(p, "showToast_updated", "ok")
    /\ local[Me(p)] = applyOverrides(HeadTree(remote), overrides[Me(p)])

\* C19: in a startup run commitAll and pushBranch are made only after the
\* dirty check found the clone clean, the fetch reported no update and the
\* check after syncLocalToRepo reported changes, all in that run; when that
\* second check reports no changes the run returns with no message
\* generated, no commit, no push and no SyncState write.
C19_StartupCommitsOnlyChanges ==
  \A p \in Procs :
    flow[p] = "startup" =>
      /\ \A c \in {"commitAll", "pushBranch", "writeState_push"} :
           Did(p, c) =>
             /\ Before(p, "hasLocalChanges", "false", c)
             /\ Before(p, "fetchAndFastForward", "uptodate", c)
             /\ Before(p, "syncLocalToRepo", "ok", c)
             /\ Before(p, "hasLocalChanges_post", "true", c)
      /\ DidWith(p, "hasLocalChanges_post", "false") =>
           /\ pc[p] = "done" /\ outcome[p] = "returned"
           /\ NoneOf(p, {"commitAll", "pushBranch", "writeState_push"} \cup GenSites)
           /\ "syncState" \notin touched[p]
C19_StartupPushedReached ==
  \E p \in Procs :
    /\ flow[p] = "startup" /\ pc[p] = "done" /\ outcome[p] = "returned"
    /\ DidWith(p, "hasLocalChanges_post", "true")
    /\ DidWith(p, "pushBranch", "ok") /\ DidWith(p, "writeState_push", "ok")
    /\ syncState[Me(p)].lastPush

\* how many times a run made a call
TimesCalled(p, call) == Cardinality({i \in 1 .. Len(log[p]) : log[p][i][1] = call})
\* C20: session.delete is called only for a session that was created with
\* an id, after the prompt; once the generation is over it has been called
\* exactly once for such a session, however the prompt ended; and whether
\* the delete failed or not the run goes on to commitAll with the message
\* the prompt decided: the model's when usable, the fallback otherwise.
C20_SessionReleasedOnce ==
  \A p \in Procs :
    /\ TimesCalled(p, "sessionDelete") <= 1
    /\ Did(p, "sessionDelete") =>
         /\ Before(p, "sessionCreate", "session", "sessionPrompt")
         /\ \E r \in {"fail", "noText", "blank", "usable"} :
              Before(p, "sessionPrompt", r, "sessionDelete")
         /\ pc[p] = "commitAll" \/ Before(p, "sessionDelete", "ok", "commitAll")
              \/ Before(p, "sessionDelete", "fail", "commitAll")
         /\ pc[p] = "commitAll" =>
              IF DidWith(p, "sessionPrompt", "usable") THEN commitMsg[p] = ModelMessage
              ELSE IsFallback(commitMsg[p])
         /\ DidWith(p, "sessionDelete", "ok") => session[p] = "released"
    /\ (DidWith(p, "sessionCreate", "session") /\ pc[p] \notin GenSites) =>
         TimesCalled(p, "sessionDelete") = 1
    /\ (Did(p, "sessionCreate") /\ ~DidWith(p, "sessionCreate", "session")) =>
         ~Did(p, "sessionDelete")
C20_FailedReleaseReached ==
  \E p \in Procs :
    /\ DidWith(p, "sessionCreate", "session")
    /\ DidWith(p, "sessionPrompt", "blank")
    /\ DidWith(p, "sessionDelete", "fail")
    /\ DidWith(p, "commitAll", "ok")
    /\ \A msg \in Committed(p) : IsFallback(msg)
    /\ session[p] = "open"

\* the characters of a text
CharsOf(s) == {s[i] : i \in 1 .. Len(s)}
\* one non-empty line within the limit
IsBoundedLine(msg) ==
  /\ msg # <<>>
  /\ Len(msg) <= MaxLineLength
  /\ "LF" \notin CharsOf(msg)
  /\ Head(msg) \notin Whitespace /\ msg[Len(msg)] \notin Whitespace
\* C21: the message returned for a model response is the fallback when the
\* response is empty after the treatment, and otherwise one non-empty line
\* of at most 72 characters that neither starts nor ends with a quote
\* character.
C21_MessageIsCleanLine ==
  returned # <<>> =>
    IF sanitizeMessage(extractMessage(response)) = <<>>
    THEN returned[1] = FallbackMessage(Today)
    ELSE /\ IsBoundedLine(returned[1])
         /\ Head(returned[1]) \notin QuoteChars
         /\ returned[1][Len(returned[1])] \notin QuoteChars
\* a response longer than the limit was cut to it
C21_TruncatedReached ==
  /\ returned # <<>>
  /\ Len(extractMessage(response)) > MaxLineLength
  /\ Len(returned[1]) = MaxLineLength

\* the run found nothing to commit: push says so, startup just returns
FoundNothingToPush(p) ==
  /\ pc[p] = "done" /\ outcome[p] = "returned"
  /\ \/ flow[p] = "push" /\ result[p] = <<"No local changes to push.">>
     \/ flow[p] = "startup" /\ DidWith(p, "hasLocalChanges_post", "false")
\* C22: whenever push returns 'No local changes to push.', or startup ends
\* on its not-updated path without committing, every commit of the clone's
\* branch is on the remote branch.
C22_NothingToPushMeansAllPushed ==
  \A p \in Procs : FoundNothingToPush(p) => IsPrefix(branch[Me(p)], remote)
\* a push finds nothing to push after an earlier run pushed a commit
C22_NothingToPushReached ==
  \E p \in Procs :
    /\ flow[p] = "push" /\ FoundNothingToPush(p)
    /\ branch[Me(p)] = remote
    /\ Last(remote).author = Me(p)

====
